---- MODULE Spec2Model ----
(***************************************************************************)
(* Model of the RAG core of rag-chatbot: RAGService                        *)
(* (backend/app/services/rag_service.py) as it is driven by the request    *)
(* handlers of backend/app/api/chat.py.                                    *)
(*                                                                         *)
(* A RAGService object holds a binding (vector_store, retriever,           *)
(* rag_chain).  The Chroma collection of a user lives on disk under        *)
(* VECTOR_STORE_PATH/user_<id>.  Every handler is declared `async def` and *)
(* contains no await, so a call of the service occupies the single event   *)
(* loop from its first to its last statement.  Each blocking call of a     *)
(* service method (Chroma I/O, embedding, completion) is one step, and     *)
(* each of them may raise.                                                 *)
(***************************************************************************)
EXTENDS Integers, Sequences, FiniteSets, Bags, TLC

\* ---------------------------------------------------------------- bounds
MaxChunks == 4

\* ------------------------------------------------------ program constants
K == 8
FetchK == 20

\* ------------------------------------------------------------- value sets
None == 0
Users == {1, 2}
Insts == {1, 2}
Folders == {1, 2}
Scopes == {None} \cup Folders
Files == {"b.txt"}
Questions == {"q"}
Rewritten == "standalone"

VARIABLES svc, disk, call, ret, clr, messages, chat, doc,
          sessions, folders, fres, document_rows, uploads

vars == <<svc, disk, call, ret, clr, messages, chat, doc,
          sessions, folders, fres, document_rows, uploads>>

\* the state of the request handlers: the chat_sessions and chat_messages
\* tables and the last chat_query response; the folders table and the last
\* response of a folder handler; the documents table, the uploaded files and
\* the last response of a document handler
chats == <<sessions, messages, chat>>
tree == <<folders, fres>>
library == <<document_rows, uploads, doc>>
web == <<chats, tree, library>>

\* the service objects of the library callers
rag == <<svc, call, ret, clr>>

Min(a, b) == IF a <= b THEN a ELSE b

\* ------------------------------------------------------------- documents
\* number of chunks the splitter yields for a file
NumChunksOf(file) == IF file = "a.txt" THEN 1 ELSE 2

\* DocumentProcessor.process_document: chunk i carries chunk_id i and the
\* file's base name; ingested_for is the text's provenance (who uploaded it)
ProcessDocument(file, u) ==
  [n \in 1..NumChunksOf(file) |->
     [source |-> file, chunk_id |-> n - 1, folder_id |-> None,
      ingested_for |-> u]]

SeqToBag(s) ==
  [c \in {s[n] : n \in DOMAIN s} |-> Cardinality({n \in DOMAIN s : s[n] = c})]

\* ------------------------------------------------------------ RAGService
\* the users table: full_name is optional ("" when it is not set)
UserTable ==
  [u \in Users |->
     IF u = 1 THEN [username |-> "ada_l", full_name |-> "Ada"]
              ELSE [username |-> "bob", full_name |-> ""]]

\* a variant that always takes the username
DisplayName_Username(user) == user.username

\* user_display_name = current_user.full_name or current_user.username
DisplayName(user) ==
  IF user.full_name # "" THEN user.full_name ELSE user.username

\* self.user_name = user_name or f"User {user_id}"
UserName(user_name, u) ==
  IF user_name # "" THEN user_name
  ELSE IF u = 1 THEN "User 1" ELSE "User 2"

\* RAGService.__init__: nothing bound
NewService(u) ==
  [user_id |-> u, user_name |-> UserName(DisplayName(UserTable[u]), u),
   vector_store |-> None, retriever |-> FALSE,
   filter |-> None, rag_chain |-> FALSE]

\* a variant in which every user is given the same directory
PersistDirectory_Shared(u) == 1

\* persist_directory of init_vector_store / clear_vector_store
PersistDirectory(u) == u

\* the instance after init_vector_store(folder_id = f)
InitVectorStore(s, f) ==
  [s EXCEPT !.vector_store = PersistDirectory(s.user_id),
            !.retriever = TRUE,
            !.filter = f,
            !.rag_chain = TRUE]

\* a variant that creates the collection anew each time
Attach_Recreate(d) ==
  [disk EXCEPT ![d] =
     [exists |-> TRUE, collection |-> TRUE, chunks |-> EmptyBag]]

\* Chroma(persist_directory, collection_name): get or create the collection
Attach(d) ==
  [disk EXCEPT ![d] = [@ EXCEPT !.exists = TRUE, !.collection = TRUE]]

\* query: "if not self.rag_chain or folder_id is not None"
NeedsRebind(s, f) == ~s.rag_chain \/ f # None

\* HumanMessage(content=...) for user/human, AIMessage(content=...) for
\* assistant/ai
ToMessage(m) ==
  [type |-> IF m.role \in {"user", "human"} THEN "human" ELSE "ai",
   content |-> m.content]

\* a variant that keeps the turns of the user only
FormatChatHistory_HumanOnly(h) ==
  LET kept == SelectSeq(h, LAMBDA m : m.role \in {"user", "human"})
  IN  [n \in 1..Len(kept) |-> ToMessage(kept[n])]

\* _format_chat_history: only user/human and assistant/ai turns are kept,
\* in their order
FormatChatHistory(h) ==
  LET kept == SelectSeq(h, LAMBDA m :
                             m.role \in {"user", "human", "assistant", "ai"})
  IN  [n \in 1..Len(kept) |-> ToMessage(kept[n])]

\* a variant that rewrites the question whether there is history or not
NeedsReformulation_Always(formatted_history) == TRUE

\* create_history_aware_retriever: without chat history the input goes to
\* the retriever as it is, with history it is rewritten by the model first
NeedsReformulation(formatted_history) == formatted_history # <<>>

\* qa_prompt: the system message (who is assisted, the directive to say "I
\* don't know" rather than make an answer up, the context), then the chat
\* history, then the question
NoPrompt ==
  [system |-> [assisting |-> "", directive |-> "", context |-> EmptyBag],
   chat_history |-> <<>>, human |-> ""]

QAPrompt(user_name, context, formatted_history, question) ==
  [system |-> [assisting |-> user_name, directive |-> "say_you_dont_know",
               context |-> context],
   chat_history |-> formatted_history,
   human |-> question]

\* lines 234-238: what query returns
QueryResult(c) ==
  [answer |-> "answer", source_documents |-> c.context,
   question |-> c.question]

Histories ==
  {<<>>,
   <<[role |-> "user", content |-> "q0"],
     [role |-> "assistant", content |-> "a0"]>>}

\* a variant whose filter lets every chunk through
Matches_Any(c, f) == TRUE

\* search_kwargs["filter"] = {"folder_id": folder_id}
Matches(c, f) == f = None \/ c.folder_id = f

Candidates(chunks, f) ==
  LET dom == {c \in DOMAIN chunks : Matches(c, f)}
  IN  [c \in dom |-> chunks[c]]

\* MMR keeps k of the fetch_k nearest candidates; which ones depends on the
\* embedding, so any choice of that size is possible
MMRResults(cand) ==
  {b \in SubBag(cand) :
     BagCardinality(b) = Min(K, Min(FetchK, BagCardinality(cand)))}

\* --------------------------------------------------------------- records
IdleCall ==
  [pc |-> "idle", op |-> "none", question |-> "", chat_history |-> <<>>,
   folder_id |-> None, documents |-> <<>>, standalone |-> "",
   context |-> EmptyBag, used_filter |-> None, rebound |-> FALSE,
   before |-> EmptyBag, faults |-> {}, completions |-> 0,
   prompt |-> NoPrompt]

NoRet ==
  [op |-> "none", inst |-> 0, user |-> 0, status |-> "none",
   question |-> "", chat_history |-> <<>>, folder_id |-> None,
   documents |-> <<>>, standalone |-> "", source_documents |-> EmptyBag,
   used_filter |-> None, rebound |-> FALSE, before |-> EmptyBag,
   faults |-> {}, completions |-> 0, prompt |-> NoPrompt,
   result |-> QueryResult(IdleCall)]

\* the outcome of the call of instance i, as its caller sees it
Outcome(i, c, status) ==
  [op |-> c.op, inst |-> i, user |-> svc[i].user_id, status |-> status,
   question |-> c.question, chat_history |-> c.chat_history,
   folder_id |-> c.folder_id, documents |-> c.documents,
   standalone |-> c.standalone, source_documents |-> c.context,
   used_filter |-> c.used_filter, rebound |-> c.rebound,
   before |-> c.before, faults |-> c.faults,
   completions |-> c.completions, prompt |-> c.prompt,
   result |-> QueryResult(c)]

\* the run of consecutive clear_vector_store calls made for one user in which
\* no delete failed: the user, the number of calls (counted up to 2) and
\* whether chunks were stored when the first of them began
NoRun == [user |-> 0, n |-> 0, had |-> FALSE]

\* a call other than clear, made for user u, ends u's run of clears
EndRun(u) == IF clr.user = u THEN NoRun ELSE clr

\* chunks stored in all collections
Stored == BagCardinality(disk[1].chunks) + BagCardinality(disk[2].chunks)

\* no chat_query has answered yet
NoChat ==
  [user |-> 0, session_id |-> 0,
   session |-> [user_id |-> 0, folder_id |-> 0], query_folder |-> 0,
   folder_id |-> 0, filter |-> 0, earlier |-> 0,
   display_name |-> "", status |-> 0, question |-> "",
   stored |-> <<>>, chat_history |-> <<>>, prompt |-> NoPrompt,
   faults |-> {}]

\* no document has been uploaded yet
NoError == [type |-> "", message |-> <<>>]

NoDoc ==
  [op |-> "none", user |-> 0, document_id |-> 0, folder_id |-> None,
   file_path |-> [dir |-> <<>>, name |-> "", ext |-> ""],
   decoded |-> FALSE, status |-> "none", error |-> NoError, chunks |-> <<>>,
   before |-> EmptyBag, is_processed |-> FALSE, http |-> 0, detail |-> "",
   faults |-> {}]

\* the handlers are coroutines without an await: one runs at a time
EventLoopFree == \A i \in Insts : call[i].pc = "idle"

\* ------------------------------------------------------------------ Init
\* the tables are empty
MaxFolders == 3
MaxDocs == 2
FolderIds == 1..MaxFolders
DocIds == 1..MaxDocs
SessionIds == {1, 2}

NoFolder == [user_id |-> 0, parent_folder_id |-> None, is_archived |-> FALSE]
NoSession == [user_id |-> 0, folder_id |-> None]
NoFres == [op |-> "none", user |-> 0, folder_id |-> 0, status |-> 0,
           before |-> [f \in FolderIds |-> NoFolder]]

InitCommon ==
  /\ svc \in [Insts -> {NewService(u) : u \in Users}]
  /\ disk = [d \in Users |->
               [exists |-> FALSE, collection |-> FALSE, chunks |-> EmptyBag]]
  /\ call = [i \in Insts |-> IdleCall]
  /\ ret = NoRet
  /\ clr = NoRun
  /\ messages = [s \in SessionIds |-> <<>>]
  /\ chat = NoChat
  /\ doc = NoDoc
  /\ sessions = [s \in SessionIds |-> NoSession]
  /\ fres = NoFres
  /\ document_rows = <<>>
  /\ uploads = {}

Init == InitCommon /\ folders = [f \in FolderIds |-> NoFolder]

\* rag_service = RAGService(user_id=current_user.id, ...)
Construct(i, u) ==
  /\ EventLoopFree
  /\ svc[i] # NewService(u)
  /\ svc' = [svc EXCEPT ![i] = NewService(u)]
  /\ ret' = NoRet
  /\ UNCHANGED <<disk, call, clr>>
  /\ UNCHANGED web

\* the call of instance i ends, normally or by raising
Finish(i, c, status) ==
  /\ call' = [call EXCEPT ![i] = IdleCall]
  /\ ret' = Outcome(i, c, status)

\* ----------------------------------------------------------------- query
Query(i, question, chat_history, folder_id) ==
  /\ EventLoopFree
  /\ call' = [call EXCEPT ![i] =
                [IdleCall EXCEPT !.pc = "q_bind", !.op = "query",
                                 !.question = question,
                                 !.chat_history = chat_history,
                                 !.folder_id = folder_id,
                                 !.standalone = question,
                                 !.before = disk[svc[i].user_id].chunks]]
  /\ ret' = NoRet
  /\ clr' = EndRun(svc[i].user_id)
  /\ UNCHANGED <<svc, disk>>
  /\ UNCHANGED web

\* lines 214-215: rebind when nothing is bound or a folder is requested
QueryBind(i) ==
  /\ call[i].pc = "q_bind"
  /\ LET c == call[i]
         next == IF NeedsReformulation(FormatChatHistory(c.chat_history))
                 THEN "q_reformulate" ELSE "q_retrieve"
     IN IF NeedsRebind(svc[i], c.folder_id)
        THEN \E ok \in BOOLEAN :
               IF ok
               THEN /\ svc' = [svc EXCEPT ![i] = InitVectorStore(@, c.folder_id)]
                    /\ disk' = Attach(PersistDirectory(svc[i].user_id))
                    /\ call' = [call EXCEPT ![i] =
                                  [c EXCEPT !.pc = next, !.rebound = TRUE]]
                    /\ UNCHANGED ret
               ELSE /\ Finish(i, [c EXCEPT !.faults = @ \cup {"bind"}], "raised")
                    /\ UNCHANGED <<svc, disk>>
        ELSE /\ call' = [call EXCEPT ![i] = [c EXCEPT !.pc = next]]
             /\ UNCHANGED <<svc, disk, ret>>
  /\ UNCHANGED clr
  /\ UNCHANGED web

\* history-aware retriever: with history, one completion call rewrites the
\* question; the chain has no fallback, a failure of the call raises
QueryReformulate(i) ==
  /\ call[i].pc = "q_reformulate"
  /\ LET c == call[i]
         cc == [c EXCEPT !.completions = @ + 1]
     IN \E ok \in BOOLEAN :
          IF ok
          THEN /\ \E s \in {c.question, Rewritten} :
                    call' = [call EXCEPT ![i] =
                               [cc EXCEPT !.pc = "q_retrieve", !.standalone = s]]
               /\ UNCHANGED ret
          ELSE Finish(i, [cc EXCEPT !.faults = @ \cup {"reformulate"}], "raised")
  /\ UNCHANGED <<svc, disk, clr>>
  /\ UNCHANGED web

\* the retriever embeds the question and searches the bound collection
QueryRetrieve(i) ==
  /\ call[i].pc = "q_retrieve"
  /\ LET c == call[i]
         d == svc[i].vector_store
     IN \E ok \in BOOLEAN :
          IF ok /\ disk[d].collection
          THEN /\ \E r \in MMRResults(Candidates(disk[d].chunks, svc[i].filter)) :
                    call' = [call EXCEPT ![i] =
                               [c EXCEPT !.pc = "q_synthesize", !.context = r,
                                         !.used_filter = svc[i].filter]]
               /\ UNCHANGED ret
          ELSE Finish(i, [c EXCEPT !.faults = @ \cup {"retrieve"},
                                   !.used_filter = svc[i].filter], "raised")
  /\ UNCHANGED <<svc, disk, clr>>
  /\ UNCHANGED web

\* the answer completion; query returns answer, source_documents, question
QuerySynthesize(i) ==
  /\ call[i].pc = "q_synthesize"
  /\ LET c == [call[i] EXCEPT
                  !.completions = @ + 1,
                  !.prompt = QAPrompt(svc[i].user_name, call[i].context,
                                      FormatChatHistory(call[i].chat_history),
                                      call[i].question)]
     IN \E ok \in BOOLEAN :
          IF ok
          THEN Finish(i, c, "ok")
          ELSE Finish(i, [c EXCEPT !.faults = @ \cup {"synthesize"}], "raised")
  /\ UNCHANGED <<svc, disk, clr>>
  /\ UNCHANGED web

\* --------------------------------------------------------- add_documents
\* lines 188-191: folder_id is written into every chunk's metadata
Tag(documents, folder_id) ==
  [n \in DOMAIN documents |->
     IF folder_id # None
     THEN [documents[n] EXCEPT !.folder_id = folder_id]
     ELSE documents[n]]

\* a variant that inserts chunk by chunk and stops at the failure
AddTexts_PerChunk(chunks, documents, ok) ==
  IF ok
  THEN chunks (+) SeqToBag(documents)
  ELSE chunks (+) SeqToBag(SubSeq(documents, 1, 1))

\* a variant that keys the entries by their content, so that storing a chunk
\* again replaces the stored one
AddTexts_Replace(chunks, documents, ok) ==
  IF ok
  THEN LET all == chunks (+) SeqToBag(documents)
       IN  [c \in DOMAIN all |-> 1]
  ELSE chunks

\* vector_store.add_texts(texts, metadatas) then persist(): the batch goes to
\* the collection in one call, with the vectors computed before it; a call
\* that fails stores nothing
AddTexts(chunks, documents, ok) ==
  IF ok THEN chunks (+) SeqToBag(documents) ELSE chunks

AddDocuments(i, file, folder_id) ==
  /\ EventLoopFree
  /\ Stored + NumChunksOf(file) <= MaxChunks
  /\ call' = [call EXCEPT ![i] =
                [IdleCall EXCEPT !.pc = "a_init", !.op = "add",
                                 !.folder_id = folder_id,
                                 !.documents =
                                    ProcessDocument(file, svc[i].user_id),
                                 !.before = disk[svc[i].user_id].chunks]]
  /\ ret' = NoRet
  /\ clr' = EndRun(svc[i].user_id)
  /\ UNCHANGED <<svc, disk>>
  /\ UNCHANGED web

\* lines 182-191: bind without a filter when nothing is bound, then tag
AddInit(i) ==
  /\ call[i].pc = "a_init"
  /\ LET c == call[i]
         tagged == [c EXCEPT !.pc = "a_embed",
                             !.documents = Tag(@, c.folder_id)]
     IN IF svc[i].vector_store = None
        THEN \E ok \in BOOLEAN :
               IF ok
               THEN /\ svc' = [svc EXCEPT ![i] = InitVectorStore(@, None)]
                    /\ disk' = Attach(PersistDirectory(svc[i].user_id))
                    /\ call' = [call EXCEPT ![i] =
                                  [tagged EXCEPT !.rebound = TRUE]]
                    /\ UNCHANGED ret
               ELSE /\ Finish(i, [c EXCEPT !.faults = @ \cup {"bind"}], "raised")
                    /\ UNCHANGED <<svc, disk>>
        ELSE /\ call' = [call EXCEPT ![i] = tagged]
             /\ UNCHANGED <<svc, disk, ret>>
  /\ UNCHANGED clr
  /\ UNCHANGED web

\* add_texts first embeds every text of the batch
AddEmbed(i) ==
  /\ call[i].pc = "a_embed"
  /\ LET c == call[i]
     IN \E ok \in BOOLEAN :
          IF ok
          THEN /\ call' = [call EXCEPT ![i] = [c EXCEPT !.pc = "a_upsert"]]
               /\ UNCHANGED ret
          ELSE Finish(i, [c EXCEPT !.faults = @ \cup {"embed"}], "raised")
  /\ UNCHANGED <<svc, disk, clr>>
  /\ UNCHANGED web

\* then inserts the batch into the bound collection and persists
AddUpsert(i) ==
  /\ call[i].pc = "a_upsert"
  /\ LET c == call[i]
         d == svc[i].vector_store
     IN \E ok \in BOOLEAN :
          LET stored == ok /\ disk[d].collection
          IN /\ disk' = [disk EXCEPT ![d] =
                           [@ EXCEPT !.chunks = AddTexts(@, c.documents, stored)]]
             /\ IF stored
                THEN Finish(i, c, "ok")
                ELSE Finish(i, [c EXCEPT !.faults = @ \cup {"upsert"}], "raised")
  /\ UNCHANGED <<svc, clr>>
  /\ UNCHANGED web

\* ------------------------------------------------------ clear_vector_store
\* lines 249-251
Unbind(s) ==
  [s EXCEPT !.vector_store = None, !.retriever = FALSE, !.filter = None,
            !.rag_chain = FALSE]

\* a variant that removes nothing
Rmtree_Noop(entry) == entry

\* shutil.rmtree(persist_directory): the directory and all in it are gone
Rmtree(entry) ==
  [exists |-> FALSE, collection |-> FALSE, chunks |-> EmptyBag]

\* vector_store.delete_collection(): the directory stays, without collection
DeleteCollection(entry) ==
  [exists |-> entry.exists, collection |-> FALSE, chunks |-> EmptyBag]

\* both deletes sit in try/except blocks that print the error and go on
ClearStatus(faults) == "ok"

ClearVectorStore(i) ==
  /\ EventLoopFree
  /\ LET u == svc[i].user_id
     IN /\ call' = [call EXCEPT ![i] =
                      [IdleCall EXCEPT
                         !.pc = IF svc[i].vector_store # None
                                THEN "c_delete_collection" ELSE "c_rmtree",
                         !.op = "clear",
                         !.before = disk[u].chunks]]
        /\ clr' = IF clr.user = u
                   THEN clr
                   ELSE [user |-> u, n |-> 0,
                         had |-> disk[u].chunks # EmptyBag]
  /\ ret' = NoRet
  /\ UNCHANGED <<svc, disk>>
  /\ UNCHANGED web

\* lines 243-251: delete the bound collection, swallow its error, unbind
ClearDeleteCollection(i) ==
  /\ call[i].pc = "c_delete_collection"
  /\ LET c == call[i]
         d == svc[i].vector_store
     IN IF disk[d].collection
        THEN \E ok \in BOOLEAN :
               IF ok
               THEN /\ disk' = [disk EXCEPT ![d] = DeleteCollection(@)]
                    /\ call' = [call EXCEPT ![i] = [c EXCEPT !.pc = "c_rmtree"]]
               ELSE /\ UNCHANGED disk
                    /\ call' = [call EXCEPT ![i] =
                                  [c EXCEPT !.pc = "c_rmtree",
                                            !.faults = @ \cup {"delete_collection"}]]
        ELSE \* the collection is gone already: the error is printed
             /\ UNCHANGED disk
             /\ call' = [call EXCEPT ![i] = [c EXCEPT !.pc = "c_rmtree"]]
  /\ svc' = [svc EXCEPT ![i] = Unbind(@)]
  /\ UNCHANGED <<ret, clr>>
  /\ UNCHANGED web

\* lines 254-260: remove the directory when it exists, swallow the error
ClearRmtree(i) ==
  /\ call[i].pc = "c_rmtree"
  /\ LET c == call[i]
         u == svc[i].user_id
         d == PersistDirectory(u)
         end(cc) ==
           /\ Finish(i, cc, ClearStatus(cc.faults))
           /\ clr' = IF cc.faults = {}
                     THEN [clr EXCEPT !.n = Min(@ + 1, 2)]
                     ELSE NoRun
     IN IF disk[d].exists
        THEN \E ok \in BOOLEAN :
               IF ok
               THEN /\ disk' = [disk EXCEPT ![d] = Rmtree(@)]
                    /\ end(c)
               ELSE \* rmtree stopped by an error: nothing or part was removed
                    /\ disk' \in {disk, [disk EXCEPT ![d] = DeleteCollection(@)]}
                    /\ end([c EXCEPT !.faults = @ \cup {"rmtree"}])
        ELSE /\ UNCHANGED disk
             /\ end(c)
  /\ UNCHANGED svc
  /\ UNCHANGED web

Next ==
  \/ \E i \in Insts, u \in Users : Construct(i, u)
  \/ \E i \in Insts, q \in Questions, h \in Histories, f \in Scopes :
       Query(i, q, h, f)
  \/ \E i \in Insts : QueryBind(i)
  \/ \E i \in Insts : QueryReformulate(i)
  \/ \E i \in Insts : QueryRetrieve(i)
  \/ \E i \in Insts : QuerySynthesize(i)
  \/ \E i \in Insts, file \in Files, f \in Scopes : AddDocuments(i, file, f)
  \/ \E i \in Insts : AddInit(i)
  \/ \E i \in Insts : AddEmbed(i)
  \/ \E i \in Insts : AddUpsert(i)
  \/ \E i \in Insts : ClearVectorStore(i)
  \/ \E i \in Insts : ClearDeleteCollection(i)
  \/ \E i \in Insts : ClearRmtree(i)

Spec == Init /\ [][Next]_vars

TypeOK ==
  /\ \A i \in Insts : svc[i].user_id \in Users
  /\ \A i \in Insts : svc[i].rag_chain = (svc[i].vector_store # None)
  /\ \A d \in Users : disk[d].collection => disk[d].exists
  /\ Stored <= MaxChunks

\* chat_query: the response when query returned, HTTP 500 on any exception
ChatQueryStatus(outcome) == IF outcome.status = "ok" THEN 200 ELSE 500

\* ------------------------------------------------------------ chat_query
MaxMessages == 4
ChatInputs == Questions

\* _get_chat_history_helper: the session's messages in the order of their
\* created_at, as role/content dictionaries
GetChatHistory(rows) ==
  [n \in DOMAIN rows |-> [role |-> rows[n].role, content |-> rows[n].content]]

\* save_message: one more row, created after all the rows there are
SaveMessage(rows, role, content) ==
  Append(rows, [role |-> role, content |-> content])

\* a variant that prefers the folder of the session
EffectiveFolder_SessionFirst(query_folder, session_folder) ==
  IF session_folder # None THEN session_folder ELSE query_folder

\* lines 90-93: the session's folder is used when the request names none
EffectiveFolder(query_folder, session_folder) ==
  IF query_folder = None /\ session_folder # None
  THEN session_folder ELSE query_folder

\* the rows the users table can hold for user u: full_name is free text of
\* the registration form
Accounts(u) ==
  {UserTable[u], [UserTable[u] EXCEPT !.full_name = "{admin}"]}

\* the replacement fields ChatPromptTemplate finds in a piece of the system
\* template: qa_system_prompt is an f-string, so the name is part of the
\* template text when the template is parsed
TemplateFields(text) == IF text = "{admin}" THEN {"admin"} ELSE {}

\* the variables the chain supplies when the prompt is formatted
ChainInputs == {"input", "chat_history", "context"}

\* the outcomes of one chat_query: formatting the prompt raises when the
\* template asks for a variable the chain does not supply
ChatOutcomes(user_name) ==
  IF TemplateFields(user_name) \subseteq ChainInputs
  THEN {"ok", "query_raised", "save_raised"}
  ELSE {"format_raised"}

\* rows of the chat_messages table
Saved == Len(messages[1]) + Len(messages[2])

\* get_or_create_session: the row with this session_id, whoever owns it; a
\* new row of the user, without folder, when there is none
GetOrCreateSession(session_id, u) ==
  IF sessions[session_id] # NoSession
  THEN sessions
  ELSE [sessions EXCEPT ![session_id] = [user_id |-> u, folder_id |-> None]]

\* create_session: a new row of the user with the folder of the request
CreateSession(u, folder_id) ==
  /\ EventLoopFree
  /\ \E s \in SessionIds :
       /\ sessions[s] = NoSession
       /\ sessions' = [sessions EXCEPT ![s] =
                         [user_id |-> u, folder_id |-> folder_id]]
  /\ UNCHANGED <<rag, disk, tree, library, messages, chat>>

\* chat_query: the session is fetched or made, its history is read, a
\* RAGService is made for the user and asked, and only then the question and
\* the answer are saved; any exception is answered with HTTP 500
ChatQuery(u, session_id, current_user, question, query_folder) ==
  /\ EventLoopFree
  /\ Saved + 2 <= MaxMessages
  /\ LET found == GetOrCreateSession(session_id, u)
         session == found[session_id]
         chat_history == GetChatHistory(messages[session_id])
         user_display_name == DisplayName(current_user)
         folder_id == EffectiveFolder(query_folder, session.folder_id)
         made == [NewService(u) EXCEPT
                    !.user_name = UserName(user_display_name, u)]
         rag_service == IF NeedsRebind(made, folder_id)
                        THEN InitVectorStore(made, folder_id) ELSE made
         d == rag_service.vector_store
     IN \E outcome \in ChatOutcomes(rag_service.user_name) :
        \E r \in MMRResults(Candidates(disk[d].chunks, rag_service.filter)) :
          LET prompt == QAPrompt(rag_service.user_name, r,
                                 FormatChatHistory(chat_history), question)
              saved == SaveMessage(messages[session_id], "user", question)
          IN /\ sessions' = found
             /\ disk' = Attach(d)
             /\ messages' =
                  [messages EXCEPT ![session_id] =
                     IF outcome = "ok"
                     THEN SaveMessage(saved, "assistant",
                                      QueryResult(IdleCall).answer)
                     ELSE IF outcome = "save_raised" THEN saved ELSE @]
             /\ chat' =
                  [user |-> u,
                   session_id |-> session_id,
                   session |-> session,
                   query_folder |-> query_folder,
                   folder_id |-> folder_id,
                   filter |-> rag_service.filter,
                   earlier |-> chat.folder_id,
                   display_name |-> user_display_name,
                   faults |-> IF outcome = "query_raised" THEN {"provider"}
                              ELSE IF outcome = "save_raised" THEN {"db"}
                              ELSE {},
                   status |-> ChatQueryStatus(
                                [status |-> IF outcome = "ok" THEN "ok"
                                            ELSE "raised"]),
                   question |-> question,
                   stored |-> messages[session_id],
                   chat_history |-> chat_history,
                   prompt |-> IF outcome \in {"ok", "save_raised"}
                              THEN prompt ELSE NoPrompt]
  /\ UNCHANGED <<rag, tree, library>>

NextChat ==
  \/ \E u \in Users, f \in {None, 2} : CreateSession(u, f)
  \/ \E u \in Users, s \in SessionIds, q \in ChatInputs, f \in {None, 1} :
       \E current_user \in Accounts(u) : ChatQuery(u, s, current_user, q, f)

\* the handler makes its own RAGService: the service objects of the library
\* callers play no part
InitChat == Init /\ svc = [i \in Insts |-> NewService(1)]

SpecChat == InitChat /\ [][NextChat]_vars

\* ================================================================ claims
InProgress(i) == call[i].pc # "idle"

\* a caller hands a new call to the service object i
Request(i) ==
  \/ \E q \in Questions, h \in Histories, f \in Scopes : Query(i, q, h, f)
  \/ \E file \in Files, f \in Scopes : AddDocuments(i, file, f)
  \/ ClearVectorStore(i)

ChunksOf(u) == disk[PersistDirectory(u)].chunks

\* ---------------------------------------------------------------- folders
\* the row of folder_id when it belongs to user u
OwnFolder(u, folder_id) ==
  folder_id \in FolderIds /\ folders[folder_id].user_id = u

\* the primary key of a new row
NextFolderId ==
  CHOOSE id \in FolderIds :
    /\ folders[id] = NoFolder
    /\ \A j \in FolderIds : j < id => folders[j] # NoFolder

\* the response of a folder handler; before is the table it found
FolderResponse(op, u, folder_id, status) ==
  [op |-> op, user |-> u, folder_id |-> folder_id, status |-> status,
   before |-> folders]

\* create_folder: a given parent has to be a folder of the user
CreateFolder(u, parent_folder_id) ==
  /\ \E id \in FolderIds : folders[id] = NoFolder
  /\ IF parent_folder_id # None /\ ~OwnFolder(u, parent_folder_id)
     THEN /\ fres' = FolderResponse("create", u, None, 404)
          /\ UNCHANGED folders
     ELSE /\ folders' =
               [folders EXCEPT ![NextFolderId] =
                  [user_id |-> u, parent_folder_id |-> parent_folder_id,
                   is_archived |-> FALSE]]
          /\ fres' = FolderResponse("create", u, NextFolderId, 200)
  /\ UNCHANGED <<rag, disk, chats, library>>

\* update_folder: a given parent other than the folder itself has to be a
\* folder of the user and becomes the parent; the folder itself as parent is
\* passed over
UpdateFolder(u, folder_id, parent_folder_id) ==
  /\ IF ~OwnFolder(u, folder_id)
     THEN /\ fres' = FolderResponse("update", u, folder_id, 404)
          /\ UNCHANGED folders
     ELSE IF parent_folder_id # None /\ parent_folder_id # folder_id
     THEN IF ~OwnFolder(u, parent_folder_id)
          THEN /\ fres' = FolderResponse("update", u, folder_id, 404)
               /\ UNCHANGED folders
          ELSE /\ folders' = [folders EXCEPT ![folder_id].parent_folder_id =
                                              parent_folder_id]
               /\ fres' = FolderResponse("update", u, folder_id, 200)
     ELSE /\ fres' = FolderResponse("update", u, folder_id, 200)
          /\ UNCHANGED folders
  /\ UNCHANGED <<rag, disk, chats, library>>

\* a variant that toggles the flag
SetArchived_Toggle(row, value) == [row EXCEPT !.is_archived = ~@]

\* folder.is_archived = True / False
SetArchived(row, value) == [row EXCEPT !.is_archived = value]

\* archive_folder
ArchiveFolder(u, folder_id) ==
  /\ IF ~OwnFolder(u, folder_id)
     THEN /\ fres' = FolderResponse("archive", u, folder_id, 404)
          /\ UNCHANGED folders
     ELSE /\ folders' = [folders EXCEPT ![folder_id] = SetArchived(@, TRUE)]
          /\ fres' = FolderResponse("archive", u, folder_id, 200)
  /\ UNCHANGED <<rag, disk, chats, library>>

\* unarchive_folder
UnarchiveFolder(u, folder_id) ==
  /\ IF ~OwnFolder(u, folder_id)
     THEN /\ fres' = FolderResponse("unarchive", u, folder_id, 404)
          /\ UNCHANGED folders
     ELSE /\ folders' = [folders EXCEPT ![folder_id] = SetArchived(@, FALSE)]
          /\ fres' = FolderResponse("unarchive", u, folder_id, 200)
  /\ UNCHANGED <<rag, disk, chats, library>>

\* list_folders: the folders of the user, without the archived ones unless
\* they are asked for
ListFolders(u, include_archived) ==
  {id \in FolderIds :
     /\ folders[id].user_id = u
     /\ include_archived \/ ~folders[id].is_archived}

\* the folders reached from the folders of S by n steps along
\* parent_folder_id, and the ancestors of a folder
RECURSIVE Climb(_, _)
Climb(S, n) ==
  IF n = 0 THEN S
  ELSE Climb(S \cup ({folders[f].parent_folder_id : f \in S} \ {None}), n - 1)

Ancestors(f) ==
  Climb({folders[f].parent_folder_id} \ {None}, MaxFolders)

NextFolders ==
  \/ \E u \in Users, p \in {None} \cup FolderIds : CreateFolder(u, p)
  \/ \E u \in Users, f \in FolderIds, p \in {None} \cup FolderIds :
       UpdateFolder(u, f, p)
  \/ \E u \in Users, f \in FolderIds : ArchiveFolder(u, f)
  \/ \E u \in Users, f \in FolderIds : UnarchiveFolder(u, f)

InitFolders == Init /\ svc = [i \in Insts |-> NewService(1)]

SpecFolders == InitFolders /\ [][NextFolders]_vars

Turns(rows) ==
  SelectSeq(rows, LAMBDA m : m.role \in {"user", "assistant"})

\* ------------------------------------------------------ DocumentProcessor
MaxPages == 2
MaxParts == 2

\* uploaded files: the upload directory, the name and the extension as
\* os.path.splitext and os.path.basename take them apart
Extensions == {".PDF", ".txt", ".exe"}

\* upload_dir = f"/app/uploads/user_{current_user.id}"
UploadDir(u) == <<"/app/uploads/user_", u>>

FilePaths ==
  {[dir |-> UploadDir(u), name |-> "report", ext |-> e] :
     u \in Users, e \in Extensions}

\* what a loader makes of the file: it raises, or it returns pages; a page is
\* given by the number of chunks the splitter cuts it into
Decodings ==
  {[ok |-> FALSE, pages |-> <<>>]} \cup
  {[ok |-> TRUE, pages |-> p] :
     p \in UNION {[1..n -> 0..MaxParts] : n \in 0..MaxPages}}

\* os.path.basename(file_path)
Basename(file_path) == <<file_path.name, file_path.ext>>

\* os.path.splitext(file_path)[1].lower()
Lower(ext) == IF ext = ".PDF" THEN ".pdf" ELSE ext
FileExtension(file_path) == Lower(file_path.ext)

\* loader_map
LoaderMap == {".pdf", ".txt", ".md", ".docx"}

\* load_document: ValueError for an extension without a loader, otherwise
\* whatever the loader does
LoadDocument(file_path, decoding) ==
  IF FileExtension(file_path) \notin LoaderMap
  THEN [ok |-> FALSE, documents |-> <<>>,
        error |-> [type |-> "ValueError",
                   message |-> <<"Unsupported file type: ",
                                 FileExtension(file_path)>>]]
  ELSE IF ~decoding.ok
  THEN [ok |-> FALSE, documents |-> <<>>,
        error |-> [type |-> "LoaderException",
                   message |-> <<"cannot decode">>]]
  ELSE [ok |-> TRUE, documents |-> decoding.pages, error |-> NoError]

\* text_splitter.split_documents: the chunks of the first page, then those of
\* the second, and so on; text names the page and the part of the page
RECURSIVE SplitDocuments(_, _)
SplitDocuments(documents, page) ==
  IF page > Len(documents) THEN <<>>
  ELSE [k \in 1..documents[page] |-> [text |-> <<page, k>>]]
       \o SplitDocuments(documents, page + 1)

\* a variant that numbers the chunks of every page from 0
TagChunks_PerPage(docs, file_path, u) ==
  [n \in DOMAIN docs |->
     [text |-> docs[n].text, source |-> Basename(file_path),
      chunk_id |-> docs[n].text[2] - 1, folder_id |-> None,
      ingested_for |-> u]]

\* lines 68-70: for i, doc in enumerate(docs): chunk_id = i, source = the
\* file's base name (ingested_for is the provenance, as in ProcessDocument)
TagChunks(docs, file_path, u) ==
  [n \in DOMAIN docs |->
     [text |-> docs[n].text, source |-> Basename(file_path),
      chunk_id |-> n - 1, folder_id |-> None, ingested_for |-> u]]

\* process_document: every exception of loading and splitting is raised
\* again as Exception("Error processing document: " + str(e))
ProcessDocumentFile(file_path, decoding, u) ==
  LET loaded == LoadDocument(file_path, decoding)
  IN  IF loaded.ok
      THEN [ok |-> TRUE, error |-> NoError,
            chunks |-> TagChunks(SplitDocuments(loaded.documents, 1),
                                 file_path, u)]
      ELSE [ok |-> FALSE, chunks |-> <<>>,
            error |-> [type |-> "Exception",
                       message |-> <<"Error processing document: ">>
                                     \o loaded.error.message]]

\* ------------------------------------------------------------- documents
\* the file stored under a path, if there is one
HasFile(file_path) == \E f \in uploads : f.file_path = file_path
FileAt(file_path) == CHOOSE f \in uploads : f.file_path = file_path

\* shutil.copyfileobj into open(file_path, "wb"): the file is made or
\* overwritten
WriteFile(file_path, decoding) ==
  {f \in uploads : f.file_path # file_path}
    \cup {[file_path |-> file_path, decoding |-> decoding]}

\* os.remove(file_path) when the file exists
RemoveFile(file_path) == {f \in uploads : f.file_path # file_path}

\* the ids of the rows of the documents table that belong to user u
DocumentsOf(rows, u) ==
  {id \in DOMAIN rows : rows[id].exists /\ rows[id].user_id = u}

\* the response of a document handler; before is the index it found
DocResponse(op, u) ==
  [NoDoc EXCEPT !.op = op, !.user = u,
                !.before = disk[PersistDirectory(u)].chunks]

\* add_documents of a RAGService made for the request: the index is bound,
\* which makes its directory and collection, before the texts are added
AddToIndex(entry, documents, ok) ==
  [exists |-> TRUE, collection |-> TRUE,
   chunks |-> AddTexts(entry.chunks, documents, ok)]

\* clear_vector_store of a RAGService made for the request: nothing is bound,
\* so only the directory is removed, when it exists; an error of rmtree is
\* printed and the directory stays
ClearOutcomes(entry) ==
  IF ~entry.exists THEN {[entry |-> entry, faults |-> {}]}
  ELSE {[entry |-> Rmtree(entry), faults |-> {}],
        [entry |-> entry, faults |-> {"rmtree"}]}

\* upload_document: the folder is checked, the file and its row are saved,
\* the file is processed and its chunks are added to the user's index with
\* the folder of the request; is_processed is set at the end; any exception,
\* the 404 of the folder check included, is answered with HTTP 500
UploadDocument(u, file_path, decoding, folder_id) ==
  /\ EventLoopFree
  /\ file_path.dir = UploadDir(u)
  /\ Len(document_rows) < MaxDocs
  /\ LET processed == ProcessDocumentFile(file_path, decoding, u)
         rag_service == NewService(u)
         d == PersistDirectory(u)
         id == Len(document_rows) + 1
         response == [DocResponse("upload", u) EXCEPT
                        !.document_id = id, !.folder_id = folder_id,
                        !.file_path = file_path, !.decoded = decoding.ok]
     IN IF folder_id # None /\ ~OwnFolder(u, folder_id)
        THEN /\ doc' = [response EXCEPT !.document_id = 0, !.http = 500,
                                        !.detail = "404: Folder not found"]
             /\ UNCHANGED <<disk, document_rows, uploads>>
        ELSE /\ Stored + Len(processed.chunks) <= MaxChunks
             /\ \E ok \in BOOLEAN :
                  LET added == processed.ok /\ ok
                      stored == Tag(processed.chunks, folder_id)
                  IN /\ uploads' = WriteFile(file_path, decoding)
                     /\ document_rows' =
                          Append(document_rows,
                                 [exists |-> TRUE, user_id |-> u,
                                  file_path |-> file_path,
                                  folder_id |-> folder_id,
                                  is_processed |-> added,
                                  ingested |-> IF added THEN stored ELSE <<>>])
                     /\ disk' =
                          IF processed.ok
                          THEN [disk EXCEPT ![d] = AddToIndex(@, stored, ok)]
                          ELSE disk
                     /\ doc' =
                          [response EXCEPT
                             !.status = IF processed.ok THEN "ok" ELSE "raised",
                             !.error = processed.error,
                             !.chunks = processed.chunks,
                             !.is_processed = added,
                             !.faults = IF processed.ok /\ ~ok
                                        THEN {"add"} ELSE {},
                             !.http = IF added THEN 200 ELSE 500]
  /\ UNCHANGED <<rag, chats, tree>>

NextDoc ==
  \E u \in Users, file_path \in FilePaths, decoding \in Decodings,
     f \in {None} : UploadDocument(u, file_path, decoding, f)

\* as in InitChat, the handler makes its own RAGService
InitDoc == Init /\ svc = [i \in Insts |-> NewService(1)]

SpecDoc == InitDoc /\ [][NextDoc]_vars

\* a row of the documents table that was deleted
NoRow ==
  [exists |-> FALSE, user_id |-> 0,
   file_path |-> [dir |-> <<>>, name |-> "", ext |-> ""],
   folder_id |-> None, is_processed |-> FALSE, ingested |-> <<>>]

\* delete_document: 404 when the row is not the user's; the file and the row
\* are removed; the index is cleared only when no row of the user is left,
\* and an error of the clear is printed
DeleteDocument(u, document_id) ==
  /\ EventLoopFree
  /\ LET response == [DocResponse("delete", u) EXCEPT
                        !.document_id = document_id]
         d == PersistDirectory(u)
     IN IF document_id \notin DocumentsOf(document_rows, u)
        THEN /\ doc' = [response EXCEPT !.http = 404,
                                        !.detail = "Document not found"]
             /\ UNCHANGED <<disk, document_rows, uploads>>
        ELSE LET document == document_rows[document_id]
                 rows == [document_rows EXCEPT ![document_id] = NoRow]
                 remaining_docs == Cardinality(DocumentsOf(rows, u))
             IN /\ uploads' = RemoveFile(document.file_path)
                /\ document_rows' = rows
                /\ \E o \in IF remaining_docs = 0
                             THEN ClearOutcomes(disk[d])
                             ELSE {[entry |-> disk[d], faults |-> {}]} :
                     /\ disk' = [disk EXCEPT ![d] = o.entry]
                     /\ doc' = [response EXCEPT
                                  !.file_path = document.file_path,
                                  !.folder_id = document.folder_id,
                                  !.chunks = document.ingested,
                                  !.faults = o.faults,
                                  !.status = "ok",
                                  !.http = 200]
  /\ UNCHANGED <<rag, chats, tree>>

\* reprocess_document: 404 when the row or its file is missing; the file is
\* processed and its chunks are added to what the index holds, with no
\* folder_id; is_processed is set at the end
ReprocessDocument(u, document_id) ==
  /\ EventLoopFree
  /\ LET response == [DocResponse("reprocess", u) EXCEPT
                        !.document_id = document_id]
         d == PersistDirectory(u)
     IN IF document_id \notin DocumentsOf(document_rows, u)
        THEN /\ doc' = [response EXCEPT !.http = 404,
                                        !.detail = "Document not found"]
             /\ UNCHANGED <<disk, document_rows>>
        ELSE IF ~HasFile(document_rows[document_id].file_path)
        THEN /\ doc' = [response EXCEPT !.http = 404,
                                        !.detail = "Document file not found"]
             /\ UNCHANGED <<disk, document_rows>>
        ELSE LET document == document_rows[document_id]
                 file == FileAt(document.file_path)
                 processed ==
                   ProcessDocumentFile(document.file_path, file.decoding, u)
             IN /\ Stored + Len(processed.chunks) <= MaxChunks
                /\ \E ok \in BOOLEAN :
                     LET added == processed.ok /\ ok
                         stored == Tag(processed.chunks, None)
                     IN /\ disk' =
                             IF processed.ok
                             THEN [disk EXCEPT ![d] = AddToIndex(@, stored, ok)]
                             ELSE disk
                        /\ document_rows' =
                             IF added
                             THEN [document_rows EXCEPT
                                     ![document_id].is_processed = TRUE,
                                     ![document_id].ingested = stored]
                             ELSE document_rows
                        /\ doc' =
                             [response EXCEPT
                                !.file_path = document.file_path,
                                !.folder_id = document.folder_id,
                                !.decoded = file.decoding.ok,
                                !.status = IF processed.ok THEN "ok"
                                           ELSE "raised",
                                !.error = processed.error,
                                !.chunks = processed.chunks,
                                !.is_processed = added,
                                !.faults = IF processed.ok /\ ~ok
                                           THEN {"add"} ELSE {},
                                !.http = IF added THEN 200 ELSE 500]
  /\ UNCHANGED <<rag, chats, tree, uploads>>

\* the loop of reindex_all_documents from row n on: a row whose file exists
\* is processed and added with no folder_id, is_processed = True; a row that
\* raises or has no file gets is_processed = False and the loop goes on
RECURSIVE ReindexFrom(_, _, _, _, _)
ReindexFrom(n, rows, entry, adds, u) ==
  IF n > Len(rows) THEN [rows |-> rows, entry |-> entry]
  ELSE IF ~(rows[n].exists /\ rows[n].user_id = u)
  THEN ReindexFrom(n + 1, rows, entry, adds, u)
  ELSE IF ~HasFile(rows[n].file_path)
  THEN ReindexFrom(n + 1,
                   [rows EXCEPT ![n].is_processed = FALSE,
                                ![n].ingested = <<>>],
                   entry, adds, u)
  ELSE LET processed ==
             ProcessDocumentFile(rows[n].file_path,
                                 FileAt(rows[n].file_path).decoding, u)
           added == processed.ok /\ adds[n]
           stored == Tag(processed.chunks, None)
       IN ReindexFrom(n + 1,
                      [rows EXCEPT ![n].is_processed = added,
                                   ![n].ingested =
                                     IF added THEN stored ELSE <<>>],
                      IF processed.ok
                      THEN AddToIndex(entry, stored, adds[n]) ELSE entry,
                      adds, u)

\* what the database does in reindex_all_documents: the query of the rows or
\* the commit at the end may raise
DbOutcomes == {"ok", "query_raised", "commit_raised"}

\* reindex_all_documents: the index is cleared, an error of the clear is
\* printed and the handler goes on; the user's rows are read and looped over;
\* one commit at the end; any exception is caught and answered normally
ReindexAllDocuments(u) ==
  /\ EventLoopFree
  /\ LET d == PersistDirectory(u)
     IN \E o \in ClearOutcomes(disk[d]), db \in DbOutcomes,
           adds \in [DocumentsOf(document_rows, u) -> BOOLEAN] :
          LET looped == ReindexFrom(1, document_rows, o.entry, adds, u)
              response == [DocResponse("reindex", u) EXCEPT
                             !.http = 200,
                             !.faults = o.faults \cup
                                        (IF db = "ok" THEN {} ELSE {db})]
          IN /\ disk' = [disk EXCEPT ![d] = IF db = "query_raised"
                                            THEN o.entry ELSE looped.entry]
             /\ document_rows' = IF db = "ok" THEN looped.rows
                                 ELSE document_rows
             /\ doc' = [response EXCEPT
                          !.status = IF db = "ok" THEN "ok" ELSE "raised"]
  /\ Stored' <= MaxChunks
  /\ UNCHANGED <<rag, chats, tree, uploads>>

\* the uploads of this part: user 1's files of the two supported formats,
\* unreadable or of one page with one chunk; both users call the other
\* handlers
LibraryPaths == {p \in FilePaths : FileExtension(p) \in LoaderMap}
LibraryDecodings ==
  {dec \in Decodings : dec.pages = IF dec.ok THEN <<1>> ELSE <<>>}

NextLibrary ==
  \/ \E u \in {1}, file_path \in LibraryPaths,
        decoding \in LibraryDecodings, f \in {None, 1, 2} :
          UploadDocument(u, file_path, decoding, f)
  \/ \E u \in Users, id \in DocIds : DeleteDocument(u, id)
  \/ \E u \in Users, id \in DocIds : ReprocessDocument(u, id)
  \/ \E u \in Users : ReindexAllDocuments(u)

\* folder 1 is user 1's and folder 2 is user 2's, as create_folder leaves them
InitLibrary ==
  /\ InitCommon
  /\ svc = [i \in Insts |-> NewService(1)]
  /\ folders = [f \in FolderIds |->
                  IF f \in Users THEN [NoFolder EXCEPT !.user_id = f]
                  ELSE NoFolder]

SpecLibrary == InitLibrary /\ [][NextLibrary]_vars

\* the chunks of the rows of user u that are flagged is_processed, from row
\* n on: what the documents table says the index holds
RECURSIVE ProcessedChunks(_, _, _)
ProcessedChunks(n, rows, u) ==
  IF n > Len(rows) THEN EmptyBag
  ELSE (IF rows[n].exists /\ rows[n].user_id = u /\ rows[n].is_processed
        THEN SeqToBag(rows[n].ingested) ELSE EmptyBag)
       (+) ProcessedChunks(n + 1, rows, u)

\* the rows of user u, other than row id, that name the same file as row id
SameFile(rows, u, file_path) ==
  {id \in DocumentsOf(rows, u) : rows[id].file_path = file_path}

\* C1: every query that retrieved used exactly the folder filter it asked for
\* (none when it asked for none), and leaves its instance bound to that scope,
\* also when an earlier query on the instance was scoped to a folder.
C1_FilterIsTheRequestedOne ==
  (ret.op = "query" /\ ret.status = "ok") =>
     /\ ret.used_filter = ret.folder_id
     /\ svc[ret.inst].rag_chain
     /\ svc[ret.inst].filter = ret.folder_id

\* C2: tenant isolation: every chunk a query retrieves or returns for a user
\* was stored by an add_documents call made for that same user.
C2_TenantIsolation ==
  /\ \A i \in Insts :
       \A c \in BagToSet(call[i].context) : c.ingested_for = svc[i].user_id
  /\ ret.op = "query" =>
       \A c \in BagToSet(ret.source_documents) : c.ingested_for = ret.user

\* a query of user 2 returned chunks while user 1 has chunks stored as well
C2_Witness ==
  /\ ret.op = "query" /\ ret.status = "ok" /\ ret.user = 2
  /\ ret.source_documents # EmptyBag
  /\ ChunksOf(1) # EmptyBag

\* C3: a query scoped to folder F returns only chunks tagged F, and a query
\* without scope selects among all chunks of the user, whatever their tag.
C3_FolderScoping ==
  (ret.op = "query" /\ ret.status = "ok") =>
     IF ret.folder_id # None
     THEN \A c \in BagToSet(ret.source_documents) : c.folder_id = ret.folder_id
     ELSE ret.source_documents \in MMRResults(ChunksOf(ret.user))

\* C4: clear_vector_store never raises, and after two calls in a row for a user
\* in which no delete failed, on whatever instances, that user's index holds no
\* chunk.
C4_ClearIdempotent ==
  /\ ret.op = "clear" => ret.status = "ok"
  /\ clr.n = 2 => ChunksOf(clr.user) = EmptyBag

\* the second of two clears in a row has returned, for a user who had chunks
C4_Witness ==
  /\ ret.op = "clear" /\ ret.status = "ok" /\ ret.user = clr.user
  /\ clr.n = 2 /\ clr.had
  /\ ChunksOf(clr.user) = EmptyBag

\* C5: two calls for one user are never in progress together, and what keeps a
\* new call from starting is only a call in progress for the same user.
C5_PerUserExclusion ==
  /\ \A i, j \in Insts :
       (i # j /\ svc[i].user_id = svc[j].user_id) =>
          ~(InProgress(i) /\ InProgress(j))
  /\ \A j \in Insts :
       (~InProgress(j) /\ ~ENABLED Request(j)) =>
          \E i \in Insts : InProgress(i) /\ svc[i].user_id = svc[j].user_id

\* C6: while a query or an ingest of one user waits on the index, an embedding
\* or a completion, a call for another user can start.
C6_UsersDoNotBlockEachOther ==
  \A i, j \in Insts :
     ( /\ call[i].op \in {"query", "add"} /\ InProgress(i)
       /\ ~InProgress(j)
       /\ svc[i].user_id # svc[j].user_id )
     => ENABLED (\E q \in Questions, h \in Histories, f \in Scopes :
                   Query(j, q, h, f))

C8_ReformulationFallback ==
  (ret.op = "query" /\ ret.faults = {"reformulate"}) =>
     /\ ret.status = "ok"
     /\ ret.standalone = ret.question

\* C9: when clear_vector_store has returned for a user, no service object of
\* that user is bound any more and the user's index is gone.
C9_ClearUnbindsEveryBinding ==
  ret.op = "clear" =>
     /\ \A i \in Insts :
          svc[i].user_id = ret.user =>
             /\ svc[i].vector_store = None
             /\ ~svc[i].retriever
             /\ ~svc[i].rag_chain
     /\ ~disk[PersistDirectory(ret.user)].exists

\* C10: clear_vector_store raises whenever a delete failed for another reason
\* than the index being absent, and returns normally only with no chunk left.
C10_ClearPropagatesFailures ==
  ret.op = "clear" =>
     /\ ret.faults # {} => ret.status = "raised"
     /\ ret.status = "ok" => ChunksOf(ret.user) = EmptyBag

\* C11: no step of a query, whether it goes on, returns or raises, changes the
\* chunks stored for any user.
C11_QueryNeverMutates ==
  [][(\E i \in Insts : call[i].op = "query" \/ call'[i].op = "query") =>
       \A u \in Users : disk'[u].chunks = disk[u].chunks]_vars

\* a query that had to bind has ended for a user with chunks stored
C11_Witness ==
  /\ ret.op = "query" /\ ret.rebound
  /\ ret.before # EmptyBag
  /\ ChunksOf(ret.user) = ret.before

C13_IndexLifecycle ==
  [][\A u \in Users :
       /\ (~disk[u].exists /\ disk'[u].exists) =>
             \E i \in Insts : /\ call[i].op \in {"query", "add"}
                              /\ svc[i].user_id = u
       /\ ((disk[u].exists /\ ~disk'[u].exists)
           \/ (disk[u].collection /\ ~disk'[u].collection)) =>
             \E i \in Insts : /\ call[i].op = "clear"
                              /\ svc[i].user_id = u]_vars

\* user 2 has cleared its index and user 1's index, made earlier, is still there
C13_Witness ==
  /\ ret.op = "clear" /\ ret.user = 2 /\ ret.before # EmptyBag
  /\ ~disk[2].exists
  /\ disk[1].collection /\ ChunksOf(1) # EmptyBag

\* C14: a scoped query for which no stored chunk carries the folder, the user
\* having an index or not, ends normally with no retrieved chunk when no
\* provider or index call fails, and chat_query answers 200.
C14_EmptyScopeIsNoError ==
  ( /\ ret.op = "query" /\ ret.folder_id # None /\ ret.faults = {}
    /\ \A c \in BagToSet(ret.before) : c.folder_id # ret.folder_id )
  => /\ ret.status = "ok"
     /\ ret.source_documents = EmptyBag
     /\ ChatQueryStatus(ret) = 200

\* a query scoped to a folder without chunks returned, for a user whose index
\* holds chunks of other folders
C14_Witness ==
  /\ ret.op = "query" /\ ret.status = "ok" /\ ret.folder_id = 1
  /\ ret.before # EmptyBag
  /\ \A c \in BagToSet(ret.before) : c.folder_id # 1
  /\ ret.source_documents = EmptyBag

\* C15: the history in the answer prompt of chat_query is the stored turns of
\* the session, one message per turn and in their order, the user's turns as
\* human messages and the assistant's as AI messages; the question comes once,
\* after the history, and is not among the history turns of its own request.
C15_HistoryThenQuestion ==
  (chat.status = 200) =>
     LET turns == Turns(chat.stored)
         h == chat.prompt.chat_history
     IN /\ Len(h) = Len(turns)
        /\ \A n \in 1..Len(turns) :
             /\ h[n].content = turns[n].content
             /\ (h[n].type = "human") = (turns[n].role = "user")
             /\ (h[n].type = "ai") = (turns[n].role = "assistant")
        /\ chat.prompt.human = chat.question
        /\ Len(messages[chat.session_id]) = Len(chat.stored) + 2
        /\ messages[chat.session_id][Len(chat.stored) + 1] =
             [role |-> "user", content |-> chat.question]

\* a second request of a session repeats a question it already holds, with
\* the answer given then
C15_Witness ==
  /\ chat.status = 200
  /\ Len(chat.stored) >= 2
  /\ \E n \in 1..(Len(chat.stored) - 1) :
       /\ chat.stored[n] = [role |-> "user", content |-> chat.question]
       /\ chat.stored[n + 1].role = "assistant"

\* C16: every chat_query whose provider, index and database calls all went
\* well answers with a prompt whose system instruction names the display name
\* of the requesting user (full_name when set, otherwise username) and carries
\* the directive to decline rather than make an answer up, with or without
\* retrieved chunks.
C16_SystemNamesTheUser ==
  (chat.user # 0 /\ chat.faults = {}) =>
     /\ chat.status = 200
     /\ chat.prompt.system.assisting = chat.display_name
     /\ chat.prompt.system.directive = "say_you_dont_know"

\* C17: a query with an empty history that returns has retrieved with the
\* caller's question unchanged and has issued exactly one completion call,
\* the answer synthesis; no reformulation call was made.
C17_EmptyHistoryOneCompletion ==
  (ret.op = "query" /\ ret.status = "ok" /\ ret.chat_history = <<>>) =>
     /\ ret.standalone = ret.question
     /\ ret.completions = 1

C17_Witness ==
  /\ ret.op = "query" /\ ret.status = "ok" /\ ret.chat_history = <<>>
  /\ ret.source_documents # EmptyBag
  /\ ret.completions = 1

\* C18: the question field of the result of a query is the standalone
\* question the retriever searched with, so it differs from the caller's
\* question whenever the reformulation rewrote it.
C18_ResultCarriesStandalone ==
  (ret.op = "query" /\ ret.status = "ok") =>
     ret.result.question = ret.standalone

\* C19: an upload whose file has no decoder fails with an UnsupportedFormat
\* error, one whose supported file cannot be decoded fails with a LoadError
\* (which carries the cause and the file), so that the caller tells the two
\* apart by the error; neither adds a chunk to the index.
C19_DistinctIngestErrors ==
  (doc.status = "raised") =>
     /\ doc.error.type =
          IF FileExtension(doc.file_path) \in LoaderMap
          THEN "LoadError" ELSE "UnsupportedFormat"
     /\ ChunksOf(doc.user) = doc.before

\* C20: the chunks process_document returns are numbered 0, 1, ..., n-1 in
\* the order of the document, page after page and without a new start at a
\* page, and each carries the base name of the file as its source.
C20_OrdinalsAndSource ==
  (doc.status = "ok") =>
     /\ \A n \in 1..Len(doc.chunks) :
          /\ doc.chunks[n].chunk_id = n - 1
          /\ doc.chunks[n].source = <<doc.file_path.name, doc.file_path.ext>>
     /\ \A m, n \in 1..Len(doc.chunks) :
          m < n =>
            \/ doc.chunks[m].text[1] < doc.chunks[n].text[1]
            \/ /\ doc.chunks[m].text[1] = doc.chunks[n].text[1]
               /\ doc.chunks[m].text[2] < doc.chunks[n].text[2]

\* a file of two pages, each cut into two chunks
C20_Witness ==
  /\ doc.status = "ok"
  /\ Len(doc.chunks) = 4
  /\ doc.chunks[3].text = <<2, 1>>
  /\ doc.chunks[3].chunk_id = 2
  /\ doc.file_path.ext = ".PDF"

\* C21: an archive by the owner leaves the folder out of the default listing
\* and in the listing with include_archived; an unarchive by the owner puts
\* it back into the default listing; either leaves every other folder as it
\* was, and changes nothing at all when the folder was in that state already.
C21_ArchiveHidesUnarchiveShows ==
  (fres.op \in {"archive", "unarchive"} /\ fres.status = 200) =>
     LET f == fres.folder_id
         u == fres.user
     IN /\ f \in ListFolders(u, TRUE)
        /\ (fres.op = "archive") => f \notin ListFolders(u, FALSE)
        /\ (fres.op = "unarchive") => f \in ListFolders(u, FALSE)
        /\ \A g \in FolderIds \ {f} : folders[g] = fres.before[g]
        /\ (fres.before[f].is_archived = (fres.op = "archive")) =>
              folders = fres.before

\* an archived folder is archived once more, next to a folder of the same
\* user that is not archived
C21_Witness ==
  /\ fres.op = "archive" /\ fres.status = 200
  /\ fres.before[fres.folder_id].is_archived
  /\ \E g \in ListFolders(fres.user, FALSE) : g # fres.folder_id

\* C27: following parent_folder_id from any folder ends at a folder without
\* parent: no folder is among its own ancestors.
C27_HierarchyAcyclic ==
  \A f \in FolderIds : folders[f] # NoFolder => f \notin Ancestors(f)

\* C24: a chat_query that names a session of another user reads none of that
\* session's messages as history and appends nothing to it.
C24_SessionsArePrivate ==
  (chat.user # 0 /\ chat.session.user_id # chat.user) =>
     /\ chat.chat_history = <<>>
     /\ messages[chat.session_id] = chat.stored

\* C26: a chat_query that answers appends the question and then the answer
\* to its session and nothing else; one whose RAG step fails appends nothing
\* to any session; and no session holds a user turn that is not followed by
\* the assistant's reply.
C26_TurnsComeInPairs ==
  /\ (chat.status = 200) =>
        messages[chat.session_id] =
          chat.stored \o <<[role |-> "user", content |-> chat.question],
                           [role |-> "assistant", content |-> "answer"]>>
  /\ ("provider" \in chat.faults) =>
        messages[chat.session_id] = chat.stored
  /\ \A s \in SessionIds :
       \A n \in 1..Len(messages[s]) :
         messages[s][n].role = "user" =>
           /\ n < Len(messages[s])
           /\ messages[s][n + 1].role = "assistant"

\* C30: the scope chat_query passes to query is the folder of the request
\* when it names one, otherwise the folder of the session when it has one,
\* otherwise none; the retrieval of the request is filtered by that scope,
\* whatever the scope of the request before was.
C30_ScopeOfTheRequest ==
  (chat.user # 0) =>
     /\ chat.folder_id =
          IF chat.query_folder # None THEN chat.query_folder
          ELSE IF chat.session.folder_id # None THEN chat.session.folder_id
          ELSE None
     /\ chat.filter = chat.folder_id

\* a request that names folder 1 in a session of folder 2, after a request
\* that was scoped to folder 2
C30_Witness ==
  /\ chat.status = 200
  /\ chat.earlier = 2
  /\ chat.query_folder = 1 /\ chat.session.folder_id = 2
  /\ chat.filter = 1

\* C28: an upload that names a folder the user does not own, or that does not
\* exist, is answered with HTTP 404 and changes nothing: no file, no row and
\* no chunk is added.
C28_ForeignFolderIs404 ==
  [][(/\ doc'.op = "upload"
      /\ doc'.folder_id # None
      /\ ~OwnFolder(doc'.user, doc'.folder_id))
       => /\ doc'.http = 404
          /\ UNCHANGED <<uploads, document_rows, disk>>]_vars

\* C22: after delete_document succeeded, no chunk of the deleted document is
\* left in the user's index (no other document of the user names the same
\* file), whether or not it was the user's last document.
C22_DeleteRemovesEmbeddings ==
  (/\ doc.op = "delete" /\ doc.http = 200
   /\ SameFile(document_rows, doc.user, doc.file_path) = {})
     => \A c \in DOMAIN ChunksOf(doc.user) :
          c.source # Basename(doc.file_path)

\* C25: every chunk of the index that comes from a document of folder F is
\* tagged with folder F, also after reprocess_document and
\* reindex_all_documents (the document is the only one of its file).
C25_FolderTagsSurvive ==
  \A id \in DOMAIN document_rows :
    LET row == document_rows[id]
    IN (/\ row.exists /\ row.folder_id # None
        /\ SameFile(document_rows, row.user_id, row.file_path) = {id})
         => \A c \in DOMAIN ChunksOf(row.user_id) :
              c.source = Basename(row.file_path)
                => c.folder_id = row.folder_id

\* C23: when reindex_all_documents completes, the user's index holds exactly
\* the chunks of the user's documents whose files exist and process, each
\* once and nothing from before; a document that fails or has no file is
\* flagged is_processed = False.
C23_ReindexIsExact ==
  (doc.op = "reindex") =>
    /\ ChunksOf(doc.user) = ProcessedChunks(1, document_rows, doc.user)
    /\ \A id \in DocumentsOf(document_rows, doc.user) :
         LET row == document_rows[id]
         IN (\/ ~HasFile(row.file_path)
             \/ ~ProcessDocumentFile(row.file_path,
                                     FileAt(row.file_path).decoding,
                                     doc.user).ok)
              => ~row.is_processed

\* C29: in every state, the chunks of a row flagged is_processed = True are
\* in its user's index.
C29_ProcessedMeansIndexed ==
  \A id \in DOMAIN document_rows :
    LET row == document_rows[id]
    IN (row.exists /\ row.is_processed)
         => (SeqToBag(row.ingested) \sqsubseteq ChunksOf(row.user_id))
====
